---- MODULE Spec2Model ----
(***************************************************************************)
(* A model of epg_updater.py: one run fetches an XMLTV feed, keeps the     *)
(* channels the classifier accepts, shifts programme times to IST, merges  *)
(* with the snapshot persisted in epg.xml.gz, prunes programmes that ended *)
(* more than RETENTION_DAYS ago and writes the snapshot back.              *)
(*                                                                         *)
(* Text is modelled as TLA+ strings, read character by character.          *)
(* An XML element is a record; a document is the sequence of its children. *)
(***************************************************************************)
EXTENDS Integers, Sequences, FiniteSets, TLC

(***************************************************************************)
(* Characters and strings                                                  *)
(***************************************************************************)

\* The characters the inputs use, in code point order (Python compares
\* strings by code point).
Alphabet == " +-0123456789ABCDEFGHIJKLMNOPQRSTUVWXYZabcdefghijklmnopqrstuvwxyz"

Upper == "ABCDEFGHIJKLMNOPQRSTUVWXYZ"

LowerLetters == "abcdefghijklmnopqrstuvwxyz"

Digits == "0123456789"

CharAt(s, i) == SubSeq(s, i, i)

CharsOf(t) == {CharAt(t, i) : i \in 1..Len(t)}

\* Position of character c in table t, 0 when absent.
IndexIn(t, c) ==
    LET at == {i \in 1..Len(t) : CharAt(t, i) = c}
    IN  IF at = {} THEN 0 ELSE CHOOSE i \in at : TRUE

Ord(c) == IndexIn(Alphabet, c)

IsDigit(c) == c \in CharsOf(Digits)

AllDigits(s) == \A i \in 1..Len(s) : IsDigit(CharAt(s, i))

\* str.lower() on one character.
LowerChar(c) ==
    IF c \in CharsOf(Upper) THEN CharAt(LowerLetters, IndexIn(Upper, c)) ELSE c

RECURSIVE Lower(_)
\* str.lower()
Lower(s) ==
    IF Len(s) = 0 THEN ""
    ELSE LowerChar(CharAt(s, 1)) \o Lower(SubSeq(s, 2, Len(s)))

\* Python's "pat in s".
Contains(s, pat) ==
    \E i \in 0..(Len(s) - Len(pat)) : SubSeq(s, i + 1, i + Len(pat)) = pat

RECURSIVE StrLessFrom(_, _, _)
\* s[i:] < t[i:] when s and t agree before position i.
StrLessFrom(s, t, i) ==
    IF i > Len(t) THEN FALSE
    ELSE IF i > Len(s) THEN TRUE
    ELSE IF CharAt(s, i) = CharAt(t, i) THEN StrLessFrom(s, t, i + 1)
    ELSE Ord(CharAt(s, i)) < Ord(CharAt(t, i))

\* Python's s < t on strings: lexicographic by code point.
StrLess(s, t) == StrLessFrom(s, t, 1)

StrLeq(s, t) == s = t \/ StrLess(s, t)

\* s[:n]
Prefix(s, n) == IF Len(s) <= n THEN s ELSE SubSeq(s, 1, n)

(***************************************************************************)
(* keep_channel                                                            *)
(***************************************************************************)

FoxQualifiers ==
    {"501", "502", "503", "504", "505", "506", "507",
     "news", "cricket", "league", "footy"}

\* A variant that keeps every Fox channel, with or without a qualifier.
keep_channel_AnyFox(name) ==
    LET n == Lower(name) IN
    \/ Contains(n, "fox")
    \/ /\ Contains(n, "sky")
       /\ Contains(n, "sports")
    \/ /\ Contains(n, "tnt")
       /\ Contains(n, "sports")

keep_channel(name) ==
    LET n == Lower(name) IN
    \/ /\ Contains(n, "fox")
       /\ \E x \in FoxQualifiers : Contains(n, x)
    \/ /\ Contains(n, "sky")
       /\ Contains(n, "sports")
    \/ /\ Contains(n, "tnt")
       /\ Contains(n, "sports")

(***************************************************************************)
(* Dates and times.  A datetime is [ord, sec]: the proleptic Gregorian     *)
(* ordinal of its day (as datetime.toordinal) and the second of that day.  *)
(* A value that may be None is a sequence of zero or one elements.         *)
(***************************************************************************)

None == <<>>

Some(v) == <<v>>

SecondsPerDay == 24 * 60 * 60

IsLeap(y) == y % 4 = 0 /\ (y % 100 # 0 \/ y % 400 = 0)

DaysInMonth(y, m) ==
    IF m = 2 THEN (IF IsLeap(y) THEN 29 ELSE 28)
    ELSE IF m \in {4, 6, 9, 11} THEN 30 ELSE 31

DaysBeforeYear(y) ==
    (y - 1) * 365 + ((y - 1) \div 4) - ((y - 1) \div 100) + ((y - 1) \div 400)

RECURSIVE DaysBeforeMonth(_, _)
DaysBeforeMonth(y, m) ==
    IF m = 1 THEN 0 ELSE DaysBeforeMonth(y, m - 1) + DaysInMonth(y, m - 1)

Ymd2ord(y, m, d) == DaysBeforeYear(y) + DaysBeforeMonth(y, m) + d

\* The inverse of Ymd2ord: the date of ordinal n as [y, m, d].
Ord2ymd(n) ==
    LET y == CHOOSE c \in ((n \div 366) + 1)..((n \div 365) + 1) :
                 DaysBeforeYear(c) < n /\ n <= DaysBeforeYear(c + 1)
        r == n - DaysBeforeYear(y)
        m == CHOOSE c \in 1..12 :
                 DaysBeforeMonth(y, c) < r
                     /\ r <= DaysBeforeMonth(y, c) + DaysInMonth(y, c)
    IN  [y |-> y, m |-> m, d |-> r - DaysBeforeMonth(y, m)]

\* datetime.max is year 9999; arithmetic beyond it raises OverflowError.
MaxOrdinal == Ymd2ord(9999, 12, 31)

RECURSIVE Num(_)
\* int() of a string of digits.
Num(s) ==
    IF Len(s) = 0 THEN 0
    ELSE Num(SubSeq(s, 1, Len(s) - 1)) * 10
             + (IndexIn(Digits, CharAt(s, Len(s))) - 1)

RECURSIVE NumStr(_, _)
\* n in decimal, zero-padded to w digits ('%04d', '%02d').
NumStr(n, w) ==
    IF w = 0 THEN ""
    ELSE NumStr(n \div 10, w - 1) \o CharAt(Digits, (n % 10) + 1)

\* datetime.strptime(s, '%Y%m%d%H%M%S') for a string s that is either 14
\* digits (every field then takes its full width) or holds a character
\* that is no digit; None stands for the ValueError it raises.
Strptime(s) ==
    IF Len(s) # 14 \/ ~AllDigits(s) THEN None
    ELSE LET y  == Num(SubSeq(s, 1, 4))
             mo == Num(SubSeq(s, 5, 6))
             d  == Num(SubSeq(s, 7, 8))
             h  == Num(SubSeq(s, 9, 10))
             mi == Num(SubSeq(s, 11, 12))
             se == Num(SubSeq(s, 13, 14))
         IN  IF /\ y >= 1
                /\ mo \in 1..12
                /\ d >= 1
                /\ d <= DaysInMonth(y, mo)
                /\ h <= 23
                /\ mi <= 59
                /\ se <= 59
             THEN Some([ord |-> Ymd2ord(y, mo, d),
                        sec |-> (h * 60 + mi) * 60 + se])
             ELSE None

\* dt.strftime('%Y%m%d%H%M%S')
Strftime(dt) ==
    LET c == Ord2ymd(dt.ord) IN
    NumStr(c.y, 4) \o NumStr(c.m, 2) \o NumStr(c.d, 2)
        \o NumStr(dt.sec \div 3600, 2)
        \o NumStr((dt.sec \div 60) % 60, 2)
        \o NumStr(dt.sec % 60, 2)

\* dt + timedelta(seconds = s), s >= 0
AddSeconds(dt, s) ==
    [ord |-> dt.ord + ((dt.sec + s) \div SecondsPerDay),
     sec |-> (dt.sec + s) % SecondsPerDay]

\* dt - timedelta(days = n)
SubDays(dt, n) == [ord |-> dt.ord - n, sec |-> dt.sec]

\* a > b on datetimes
DtAfter(a, b) == a.ord > b.ord \/ (a.ord = b.ord /\ a.sec > b.sec)

RECURSIVE LStrip(_)
LStrip(s) ==
    IF Len(s) > 0 /\ CharAt(s, 1) = " " THEN LStrip(SubSeq(s, 2, Len(s))) ELSE s

RECURSIVE UpToSpace(_)
UpToSpace(s) ==
    IF Len(s) = 0 \/ CharAt(s, 1) = " " THEN ""
    ELSE CharAt(s, 1) \o UpToSpace(SubSeq(s, 2, Len(s)))

\* time_str.split()[0]; None stands for the IndexError of an all-blank string.
FirstToken(s) ==
    LET t == LStrip(s) IN IF Len(t) = 0 THEN None ELSE Some(UpToSpace(t))

IstShift == (5 * 60 + 30) * 60

IstSuffix == " +0530"

\* convert_to_ist(time_str), time_str an attribute value or None.
convert_to_ist(time_str) ==
    IF time_str = None THEN ""
    ELSE IF time_str[1] = "" THEN ""
    ELSE LET dt_part == FirstToken(time_str[1])
             dt      == IF dt_part = None THEN None ELSE Strptime(dt_part[1])
             dt_ist  == AddSeconds(dt[1], IstShift)
         IN  IF dt = None THEN time_str[1]
             ELSE IF dt_ist.ord > MaxOrdinal THEN time_str[1]
             ELSE Strftime(dt_ist) \o IstSuffix

\* get_date_object(time_str): None when the bare except swallows an error.
get_date_object(time_str) ==
    IF time_str = None THEN None ELSE Strptime(Prefix(time_str[1], 14))

RETENTION_DAYS == 30

(***************************************************************************)
(* Elements, documents and Python's insertion-ordered dict                 *)
(***************************************************************************)

\* Every channel of the inputs carries an id and every programme a channel
\* attribute; display-name, start and stop may be missing.

\* <channel id=...> with its display-name children (their texts).
Channel(id, names) == [tag |-> "channel", id |-> id, display_name |-> names]

\* <programme channel=... start=... stop=...> with a title child that the
\* program passes through; start and stop are None when the attribute is
\* missing.
Programme(cid, start, stop, title) ==
    [tag |-> "programme", channel |-> cid, start |-> start, stop |-> stop,
     title |-> title]

\* root.findall(tag)
FindAll(doc, tag) == SelectSeq(doc, LAMBDA e : e.tag = tag)

\* A dict is the sequence of its items [k, v] in insertion order.
DictHas(d, k) == \E i \in 1..Len(d) : d[i].k = k

DictGet(d, k) == d[CHOOSE i \in 1..Len(d) : d[i].k = k].v

\* d[k] = v: a new key goes last, an existing key keeps its place.
DictPut(d, k, v) ==
    IF DictHas(d, k)
    THEN [i \in 1..Len(d) |-> IF d[i].k = k THEN [k |-> k, v |-> v] ELSE d[i]]
    ELSE Append(d, [k |-> k, v |-> v])

DictKeys(d) == {d[i].k : i \in 1..Len(d)}

DictValues(d) == [i \in 1..Len(d) |-> d[i].v]

RECURSIVE SortedStrings(_)
\* sorted(keys) for a set of strings
SortedStrings(S) ==
    IF S = {} THEN <<>>
    ELSE LET m == CHOOSE x \in S : \A y \in S : StrLeq(x, y)
         IN  <<m>> \o SortedStrings(S \ {m})

\* The key of the final sort: x.get('start').
StartKey(p) == p.start[1]

\* Insert p behind every element whose key is not greater: a stable sort step.
InsertByStart(sorted, p) ==
    LET later == {i \in 1..Len(sorted) : StrLess(StartKey(p), StartKey(sorted[i]))}
        at    == IF later = {} THEN Len(sorted) + 1
                 ELSE CHOOSE i \in later : \A j \in later : i <= j
    IN  SubSeq(sorted, 1, at - 1) \o <<p>> \o SubSeq(sorted, at, Len(sorted))

RECURSIVE SortFrom(_, _)
SortFrom(sorted, rest) ==
    IF rest = <<>> THEN sorted
    ELSE SortFrom(InsertByStart(sorted, Head(rest)), Tail(rest))

\* A variant that leaves the list in the order of the merge.
SortByStart_Unsorted(progs) == progs

\* list.sort(key=lambda x: x.get('start')): stable, ascending.
SortByStart(progs) == SortFrom(<<>>, progs)

(***************************************************************************)
(* The steps of a run, as functions of the data                            *)
(***************************************************************************)

\* channel.find('display-name').text raises AttributeError when the channel
\* has no display-name child.
HasName(c) == c.display_name # <<>>

NameOf(c) == c.display_name[1]

\* The channels a loop handles before the first one that raises.
RECURSIVE BeforeError(_)
BeforeError(chs) ==
    IF chs = <<>> \/ ~HasName(Head(chs)) THEN <<>>
    ELSE <<Head(chs)>> \o BeforeError(Tail(chs))

Raises(chs) == \E i \in 1..Len(chs) : ~HasName(chs[i])

\* The sets and dicts of a run: valid_channel_ids, final_channels,
\* merged_programmes.
EmptyTables == [valid |-> {}, final |-> <<>>, merged |-> <<>>]

\* One turn of the loop "A. Process NEW Channels".
NewChannelStep(t, channel) ==
    IF keep_channel(NameOf(channel))
    THEN [t EXCEPT !.valid = @ \cup {channel.id},
                   !.final = DictPut(@, channel.id, channel)]
    ELSE t

RECURSIVE NewChannels(_, _)
NewChannels(t, chs) ==
    IF chs = <<>> THEN t
    ELSE NewChannels(NewChannelStep(t, Head(chs)), Tail(chs))

\* p with start and stop set to their IST values.
Shifted(p) ==
    [p EXCEPT !.start = Some(convert_to_ist(p.start)),
              !.stop = Some(convert_to_ist(p.stop))]

\* A variant that keys a feed programme on its start as fetched, before the
\* shift.
NewProgrammeStep_RawKey(t, p) ==
    IF p.channel \in t.valid
    THEN [t EXCEPT !.merged = DictPut(@, <<p.channel, p.start>>, Shifted(p))]
    ELSE t

\* One turn of the loop "B. Process NEW Programmes".
NewProgrammeStep(t, p) ==
    IF p.channel \in t.valid
    THEN [t EXCEPT !.merged = DictPut(@, <<p.channel, Shifted(p).start>>, Shifted(p))]
    ELSE t

RECURSIVE NewProgrammes(_, _)
NewProgrammes(t, ps) ==
    IF ps = <<>> THEN t
    ELSE NewProgrammes(NewProgrammeStep(t, Head(ps)), Tail(ps))

\* A variant that admits the id of a persisted channel without taking the
\* channel into final_channels.
OldChannelStep_IdOnly(t, channel) ==
    IF keep_channel(NameOf(channel))
    THEN [t EXCEPT !.valid = @ \cup {channel.id}]
    ELSE t

\* One turn of the loop "Extract OLD Channels".
OldChannelStep(t, channel) ==
    IF keep_channel(NameOf(channel))
    THEN [t EXCEPT !.valid = @ \cup {channel.id},
                   !.final = IF DictHas(@, channel.id) THEN @
                             ELSE DictPut(@, channel.id, channel)]
    ELSE t

RECURSIVE OldChannels(_, _)
OldChannels(t, chs) ==
    IF chs = <<>> THEN t
    ELSE OldChannels(OldChannelStep(t, Head(chs)), Tail(chs))

\* A variant that shifts a persisted programme to IST once more.
OldProgrammeStep_Reshifted(t, p) ==
    IF p.channel \in t.valid /\ ~DictHas(t.merged, <<p.channel, p.start>>)
    THEN [t EXCEPT !.merged = DictPut(@, <<p.channel, p.start>>, Shifted(p))]
    ELSE t

\* One turn of the loop "Extract OLD Programmes".
OldProgrammeStep(t, p) ==
    IF p.channel \in t.valid /\ ~DictHas(t.merged, <<p.channel, p.start>>)
    THEN [t EXCEPT !.merged = DictPut(@, <<p.channel, p.start>>, p)]
    ELSE t

RECURSIVE OldProgrammes(_, _)
OldProgrammes(t, ps) ==
    IF ps = <<>> THEN t
    ELSE OldProgrammes(OldProgrammeStep(t, Head(ps)), Tail(ps))

\* Sections A and B on the parsed feed.
ProcessNewData(root) ==
    NewProgrammes(NewChannels(EmptyTables, FindAll(root, "channel")),
                  FindAll(root, "programme"))

\* Whether the try block of section 5 raises on file f.
OldRaises(f) == ~f.readable \/ Raises(FindAll(f.doc, "channel"))

\* Section 5 on file f: what the try block has done to the tables when it
\* ends, normally or in the except clause.
MergeOldHistory(t, f) ==
    IF ~f.exists THEN t
    ELSE IF ~f.readable THEN t
    ELSE IF Raises(FindAll(f.doc, "channel"))
    THEN OldChannels(t, BeforeError(FindAll(f.doc, "channel")))
    ELSE OldProgrammes(OldChannels(t, FindAll(f.doc, "channel")),
                       FindAll(f.doc, "programme"))

\* A variant that also keeps a programme stopping exactly on the cutoff.
Recent_Inclusive(prog, cutoff) ==
    LET stop_dt == get_date_object(prog.stop)
    IN  stop_dt = None \/ ~DtAfter(cutoff, stop_dt[1])

\* The test of the prune loop.
Recent(prog, cutoff) ==
    LET stop_dt == get_date_object(prog.stop)
    IN  stop_dt = None \/ DtAfter(stop_dt[1], cutoff)

\* Section 6: final_prog_list for the clock reading clock.
PruneList(merged, clock) ==
    SelectSeq(DictValues(merged),
              LAMBDA prog : Recent(prog, SubDays(clock, RETENTION_DAYS)))

\* Section 7: the children of output_root.
OutputDoc(final, progs) ==
    LET ids == SortedStrings(DictKeys(final))
    IN  [i \in 1..Len(ids) |-> DictGet(final, ids[i])] \o SortByStart(progs)

(***************************************************************************)
(* Bounds and input pools                                                  *)
(***************************************************************************)

\* Most <programme> elements in a fetched feed.
MaxNewProgs == 1

\* Most words in a display name given to the classifier on its own.
MaxWords == 3

SeqsUpTo(S, n) == UNION {[1..k -> S] : k \in 0..n}

\* What a feed may hold for channel c1: nothing, the channel under a name
\* the classifier keeps, or the channel renamed to one it drops.
C1Choices ==
    {<<>>,
     <<Channel("c1", <<"Fox Sports 503">>)>>,
     <<Channel("c1", <<"Sky News">>)>>}

\* For channel c2: nothing, the channel under a kept name, or the channel
\* without a display-name child.
C2Choices ==
    {<<>>,
     <<Channel("c2", <<"TNT Sports 1">>)>>,
     <<Channel("c2", <<>>)>>}

\* Readings of datetime.now().
NowPool == {Strptime("20260210000000")[1], Strptime("20260212000000")[1]}

\* (start, stop, title) as the feed gives them.  With the first clock
\* reading the stops fall, after the shift to IST, 29 days back, nowhere
\* (no stop attribute), one day back, and exactly on the cutoff; with the
\* second reading the first stop is 31 days back.
SlotA == <<Some("20260110180000 +0000"), Some("20260111183000 +0000"), "live">>

SlotA2 == <<Some("20260110180000 +0000"), None, "replay">>

SlotB == <<Some("20260208090000 +0000"), Some("20260208183000 +0000"), "live">>

SlotC == <<Some("tba"), Some("20260110183000 +0000"), "special">>

ProgrammePool ==
    {Programme("c1", s[1], s[2], s[3]) : s \in {SlotA, SlotA2, SlotB, SlotC}}
        \cup {Programme("c2", s[1], s[2], s[3]) : s \in {SlotA}}

\* The children of the <tv> root of a feed.
FeedPool ==
    {c1 \o c2 \o ps : c1 \in C1Choices, c2 \in C2Choices,
                      ps \in SeqsUpTo(ProgrammePool, MaxNewProgs)}

\* Display names for the classifier: words joined by blanks.
Words ==
    {"Fox", "FOX", "Sky", "TNT", "Kayo", "Sports", "News", "Cricket",
     "Footy League", "Entertainment", "Main Event", "1", "503", ""}

RECURSIVE JoinWords(_)
JoinWords(ws) ==
    IF Len(ws) = 0 THEN ""
    ELSE IF Len(ws) = 1 THEN ws[1]
    ELSE ws[1] \o " " \o JoinWords(Tail(ws))

NamePool == {JoinWords(ws) : ws \in UNION {[1..k -> Words] : k \in 1..MaxWords}}

(***************************************************************************)
(* State                                                                   *)
(***************************************************************************)

VARIABLES
    pc,                 \* where the process is; "idle" when none runs
    disk,               \* the file epg.xml.gz
    old_disk,           \* the file as it was when the process started
    creds,              \* whether both CENTRA_ variables are set
    xml_data,           \* the fetched text: its form and the document in it
    new_root,           \* the parsed feed
    valid_channel_ids,
    final_channels,
    merged_programmes,
    history,            \* section 5: "absent", "loaded" or "failed" (the warning)
    now,                \* the reading of datetime.now() in section 6
    final_prog_list,
    name,               \* a display name handed to keep_channel on its own
    verdict             \* what keep_channel returned for it, None before

vars ==
    <<pc, disk, old_disk, creds, xml_data, new_root, valid_channel_ids,
      final_channels, merged_programmes, history, now, final_prog_list,
      name, verdict>>

runVars ==
    <<xml_data, new_root, valid_channel_ids, final_channels,
      merged_programmes, history, now, final_prog_list>>

classifierVars == <<name, verdict>>

NoFile == [exists |-> FALSE, readable |-> FALSE, doc |-> <<>>]

NoText == [form |-> "none", doc |-> <<>>]

FreshRun ==
    /\ xml_data = NoText
    /\ new_root = <<>>
    /\ valid_channel_ids = {}
    /\ final_channels = <<>>
    /\ merged_programmes = <<>>
    /\ history = "absent"
    /\ now = None
    /\ final_prog_list = <<>>

Init ==
    /\ pc = "idle"
    /\ disk = NoFile
    /\ old_disk = NoFile
    /\ creds = FALSE
    /\ FreshRun
    /\ name = ""
    /\ verdict = None

(***************************************************************************)
(* The run                                                                 *)
(***************************************************************************)

\* The scheduler starts the script in some environment.
Launch ==
    /\ pc = "idle"
    /\ pc' = "secrets"
    /\ creds' \in BOOLEAN
    /\ old_disk' = disk
    /\ UNCHANGED <<disk, runVars, classifierVars>>

\* 1. Get Secrets
GetSecrets ==
    /\ pc = "secrets"
    /\ pc' = IF creds THEN "download" ELSE "fatal"
    /\ UNCHANGED <<disk, old_disk, creds, runVars, classifierVars>>

\* A variant that opens epg.xml.gz for writing before it fetches, so that a
\* failed request leaves an empty file.
Download_OpensFileFirst ==
    /\ pc = "download"
    /\ \/ /\ pc' = "fatal"
          /\ disk' = [exists |-> TRUE, readable |-> FALSE, doc |-> <<>>]
          /\ UNCHANGED xml_data
       \/ \E form \in {"ok", "bare_amp"}, doc \in FeedPool :
             /\ xml_data' = [form |-> form, doc |-> doc]
             /\ pc' = "parse"
             /\ UNCHANGED disk
    /\ UNCHANGED <<old_disk, creds, new_root, valid_channel_ids,
                   final_channels, merged_programmes, history, now,
                   final_prog_list, classifierVars>>

\* 3. Download New Data: the request fails, or answers with the feed
\* gzipped or plain.
Download ==
    /\ pc = "download"
    /\ \/ /\ pc' = "fatal"
          /\ UNCHANGED xml_data
       \/ \E gzipped \in BOOLEAN, form \in {"ok", "bare_amp"}, doc \in FeedPool :
             /\ xml_data' = [form |-> form, doc |-> doc]
             /\ pc' = "parse"
       \/ /\ xml_data' = [form |-> "broken", doc |-> <<>>]
          /\ pc' = "parse"
    /\ UNCHANGED <<disk, old_disk, creds, new_root, valid_channel_ids,
                   final_channels, merged_programmes, history, now,
                   final_prog_list, classifierVars>>

\* 4. Parse New Data: text that parses at once, text that parses after the
\* bare ampersands are escaped, and text whose second parse raises.
ParseNewData ==
    /\ pc = "parse"
    /\ IF xml_data.form = "broken"
       THEN pc' = "fatal" /\ UNCHANGED <<xml_data, new_root>>
       ELSE /\ pc' = "new"
            /\ xml_data' = [xml_data EXCEPT !.form = "ok"]
            /\ new_root' = xml_data.doc
    /\ UNCHANGED <<disk, old_disk, creds, valid_channel_ids,
                   final_channels, merged_programmes, history, now,
                   final_prog_list, classifierVars>>

\* A. and B.: a channel without display-name ends the script with an
\* AttributeError.
ProcessNew ==
    /\ pc = "new"
    /\ IF Raises(FindAll(new_root, "channel"))
       THEN /\ pc' = "fatal"
            /\ UNCHANGED <<valid_channel_ids, final_channels, merged_programmes>>
       ELSE \E t \in {ProcessNewData(new_root)} :
               /\ pc' = "old"
               /\ valid_channel_ids' = t.valid
               /\ final_channels' = t.final
               /\ merged_programmes' = t.merged
    /\ UNCHANGED <<disk, old_disk, creds, xml_data, new_root, history, now,
                   final_prog_list, classifierVars>>

\* 5. Merge with Old History
MergeOld ==
    /\ pc = "old"
    /\ pc' = "prune"
    /\ \E t \in {MergeOldHistory([valid |-> valid_channel_ids,
                                  final |-> final_channels,
                                  merged |-> merged_programmes], disk)} :
          /\ valid_channel_ids' = t.valid
          /\ final_channels' = t.final
          /\ merged_programmes' = t.merged
    /\ history' = IF ~disk.exists THEN "absent"
                  ELSE IF OldRaises(disk) THEN "failed" ELSE "loaded"
    /\ UNCHANGED <<disk, old_disk, creds, xml_data, new_root, now,
                   final_prog_list, classifierVars>>

\* 6. Prune
Prune ==
    /\ pc = "prune"
    /\ pc' = "save"
    /\ \E clock \in NowPool :
          /\ now' = Some(clock)
          /\ final_prog_list' = PruneList(merged_programmes, clock)
    /\ UNCHANGED <<disk, old_disk, creds, xml_data, new_root,
                   valid_channel_ids, final_channels, merged_programmes,
                   history, classifierVars>>

\* 7. Save
Save ==
    /\ pc = "save"
    /\ pc' = "done"
    /\ disk' = [exists |-> TRUE, readable |-> TRUE,
                doc |-> OutputDoc(final_channels, final_prog_list)]
    /\ UNCHANGED <<old_disk, creds, runVars, classifierVars>>

\* The process ends, with status 0 or not; nothing of it remains but the file.
Exit ==
    /\ pc \in {"done", "fatal"}
    /\ pc' = "idle"
    /\ creds' = FALSE
    /\ old_disk' = disk
    /\ xml_data' = NoText
    /\ new_root' = <<>>
    /\ valid_channel_ids' = {}
    /\ final_channels' = <<>>
    /\ merged_programmes' = <<>>
    /\ history' = "absent"
    /\ now' = None
    /\ final_prog_list' = <<>>
    /\ UNCHANGED <<disk, classifierVars>>

(***************************************************************************)
(* The file between runs: something other than the script may damage it.   *)
(***************************************************************************)

\* Files that are gzipped XML but hold a channel without a display-name
\* child, behind a well-formed channel or ahead of one.
MalformedPool ==
    {<<Channel("c1", <<"Fox Sports 503">>), Channel("c2", <<>>),
       Programme("c1", Some("20260208143000 +0530"),
                 Some("20260209000000 +0530"), "live")>>,
     <<Channel("c1", <<>>), Channel("c2", <<"TNT Sports 1">>),
       Programme("c2", Some("20260208143000 +0530"),
                 Some("20260209000000 +0530"), "live")>>}

\* The file stops being gzip or XML: no element can be read from it.
Garble ==
    /\ pc = "idle"
    /\ disk.exists
    /\ disk' = [exists |-> TRUE, readable |-> FALSE, doc |-> <<>>]
    /\ old_disk' = disk'
    /\ UNCHANGED <<pc, creds, runVars, classifierVars>>

\* The file is replaced by a malformed one.
Malform ==
    /\ pc = "idle"
    /\ disk.exists
    /\ \E doc \in MalformedPool :
          disk' = [exists |-> TRUE, readable |-> TRUE, doc |-> doc]
    /\ old_disk' = disk'
    /\ UNCHANGED <<pc, creds, runVars, classifierVars>>

Next ==
    \/ Launch
    \/ GetSecrets
    \/ Download
    \/ ParseNewData
    \/ ProcessNew
    \/ MergeOld
    \/ Prune
    \/ Save
    \/ Exit
    \/ Garble
    \/ Malform

Spec == Init /\ [][Next]_vars

(***************************************************************************)
(* The classifier on its own                                               *)
(***************************************************************************)

InitKeep ==
    /\ pc = "idle"
    /\ disk = NoFile
    /\ old_disk = NoFile
    /\ creds = FALSE
    /\ FreshRun
    /\ name \in NamePool
    /\ verdict = None

Classify ==
    /\ verdict = None
    /\ verdict' = Some(keep_channel(name))
    /\ UNCHANGED <<pc, disk, old_disk, creds, runVars, name>>

NextKeep == Classify

SpecKeep == InitKeep /\ [][NextKeep]_vars

(***************************************************************************)
(* What the claims speak of                                                *)
(***************************************************************************)

\* The elements of a sequence.
Elems(seq) == {seq[i] : i \in 1..Len(seq)}

NewChannelElems == Elems(FindAll(new_root, "channel"))

NewProgrammeElems == Elems(FindAll(new_root, "programme"))

OldChannelElems == Elems(FindAll(old_disk.doc, "channel"))

OldProgrammeElems == Elems(FindAll(old_disk.doc, "programme"))

OutChannels == FindAll(disk.doc, "channel")

OutProgrammes == FindAll(disk.doc, "programme")

\* The key of a feed programme once its start is normalised.
NewKey(p) == <<p.channel, Some(convert_to_ist(p.start))>>

OldKey(p) == <<p.channel, p.start>>

AfterMerge == pc \in {"prune", "save", "done"}

\* The items of merged_programmes under key k.
MergedUnder(k) == {i \in 1..Len(merged_programmes) : merged_programmes[i].k = k}

(***************************************************************************)
(* Claims                                                                  *)
(***************************************************************************)

\* C1: after a run, a channel id that the feed lists under a name the
\* classifier rejects is in the written output neither as a channel nor as
\* the channel of any programme, whatever the persisted snapshot held for it.
C1_ExclusionPropagates ==
    pc = "done" =>
        \A c \in NewChannelElems :
            ~keep_channel(NameOf(c)) =>
                /\ \A e \in Elems(OutChannels) : e.id # c.id
                /\ \A e \in Elems(OutProgrammes) : e.channel # c.id

\* C2: once a loaded snapshot is merged, a key (channel id, start) that is
\* in the persisted snapshot and, after time normalisation, in the feed, on
\* a kept channel, has exactly one programme in merged_programmes, and it is
\* the feed's programme (with its times shifted), never the persisted one.
C2_NewSupersedesOld ==
    (AfterMerge /\ history = "loaded") =>
        \A po \in OldProgrammeElems, pn \in NewProgrammeElems :
            (NewKey(pn) = OldKey(po) /\ po.channel \in valid_channel_ids) =>
                /\ Cardinality(MergedUnder(OldKey(po))) = 1
                /\ DictGet(merged_programmes, OldKey(po))
                       \in {Shifted(q) : q \in {r \in NewProgrammeElems :
                                                   NewKey(r) = OldKey(po)}}

\* A channel of id cid passes classification in this run: the feed or the
\* persisted snapshot lists it under a name the classifier keeps.
PassesClassification(cid) ==
    \E c \in NewChannelElems \cup OldChannelElems :
        c.id = cid /\ HasName(c) /\ keep_channel(NameOf(c))

\* The persisted programmes whose key the feed does not have.
OldOnly ==
    {po \in OldProgrammeElems :
        /\ PassesClassification(po.channel)
        /\ \A pn \in NewProgrammeElems : NewKey(pn) # OldKey(po)}

\* C3: when the persisted snapshot has been loaded, every programme of it
\* whose channel passes classification and whose key is not in the feed is
\* in merged_programmes, under its key, exactly as it was persisted: same
\* start, stop and title, no second time shift.  This holds in every run of
\* any sequence of runs.
C3_HistoryKept ==
    (AfterMerge /\ history = "loaded") =>
        \A po \in OldOnly :
            /\ DictHas(merged_programmes, OldKey(po))
            /\ DictGet(merged_programmes, OldKey(po)) = po

\* A run has merged, beside a programme of the feed, a persisted programme
\* whose key the feed lacks: its start is as an earlier run shifted it.
C3_Witness ==
    /\ pc = "prune"
    /\ history = "loaded"
    /\ NewProgrammeElems # {}
    /\ \E po \in OldOnly :
          /\ po.start = Some("20260208143000 +0530")
          /\ DictGet(merged_programmes, OldKey(po)) = po

\* C4: when loading the persisted snapshot fails, the run goes on, and the
\* written output holds only what the feed gave: every channel of it is a
\* channel element of the feed and every programme a programme of the feed.
C4_FailedLoadLeavesNoTrace ==
    /\ history = "failed" => pc # "fatal"
    /\ (pc = "done" /\ history = "failed") =>
           /\ \A e \in Elems(OutChannels) : e \in NewChannelElems
           /\ \A e \in Elems(OutProgrammes) :
                  \E pn \in NewProgrammeElems : e = Shifted(pn)

\* C5: from the start of a process until section 7 writes, and for good in
\* a run that ends fatally, the file is what it was when the process
\* started: the write happens only after fetch, parse, merge and prune.
C5_NoWriteBeforeSave ==
    pc \in {"secrets", "download", "parse", "new", "old", "prune", "save",
            "fatal"}
        => disk = old_disk

\* A run has ended fatally on a feed that does not parse, with a snapshot
\* on disk.
C5_Witness ==
    /\ pc = "fatal"
    /\ xml_data.form = "broken"
    /\ disk.exists
    /\ FindAll(disk.doc, "programme") # <<>>

\* What a run on feed root, file f and clock reading clock writes.
RunOutput(root, f, clock) ==
    LET t == MergeOldHistory(ProcessNewData(root), f)
    IN  OutputDoc(t.final, PruneList(t.merged, clock))

\* C6: a second run on the same feed and the same clock reading, with the
\* output of the first as its persisted snapshot, writes that output again:
\* the same channels and programmes in the same order.
C6_Idempotent ==
    pc = "done" => RunOutput(new_root, disk, now[1]) = disk.doc

\* A run has written a programme of the feed and a programme carried over
\* from the persisted snapshot that start at the same time.
C6_Witness ==
    /\ pc = "done"
    /\ history = "loaded"
    /\ \E i, j \in 1..Len(OutProgrammes) :
          /\ i < j
          /\ OutProgrammes[i].start = OutProgrammes[j].start
          /\ OutProgrammes[i] \in {Shifted(q) : q \in NewProgrammeElems}
          /\ OutProgrammes[j] \in OldProgrammeElems

\* pat occurs in s, letter case aside.
OccursCI(pat, s) ==
    \E i \in 1..Len(s) :
        /\ i + Len(pat) - 1 <= Len(s)
        /\ \A k \in 1..Len(pat) : LowerChar(CharAt(s, i + k - 1)) = CharAt(pat, k)

\* The rule of the docstring: Fox with a qualifier, Sky Sports, TNT Sports.
ThreeBrandRule(n) ==
    \/ /\ OccursCI("fox", n)
       /\ \E q \in {"501", "502", "503", "504", "505", "506", "507", "news",
                    "cricket", "league", "footy"} : OccursCI(q, n)
    \/ OccursCI("sky", n) /\ OccursCI("sports", n)
    \/ OccursCI("tnt", n) /\ OccursCI("sports", n)

\* C7 as stated: keep_channel(name) is true exactly when the name, letter
\* case aside, contains "kayo", or "fox" and a qualifier, or "sky" and
\* "sports", or "tnt" and "sports".
C7_WithKayo ==
    verdict # None => (verdict[1] <=> (OccursCI("kayo", name) \/ ThreeBrandRule(name)))

\* C7 as the code has it: keep_channel(name) is true exactly when the name,
\* letter case aside, contains "fox" and a qualifier, or "sky" and "sports",
\* or "tnt" and "sports"; false for every other name, the empty one and
\* "Sky News" and "Kayo Sports" among them.
C7_ThreeBrands ==
    verdict # None => (verdict[1] <=> ThreeBrandRule(name))

\* keep_channel has answered False for "Kayo Sports".
C7_Witness == name = "Kayo Sports" /\ verdict = Some(FALSE)

\* The seconds from datetime a to datetime b, both within a few years.
SecondsFrom(a, b) == (b.ord - a.ord) * SecondsPerDay + (b.sec - a.sec)

\* C8: a merged programme is in the written output exactly when its stop
\* does not parse or lies less than RETENTION_DAYS = 30 days before the
\* clock reading; a stop exactly 30 days back is dropped.
C8_RollingWindow ==
    pc = "done" =>
        \A i \in 1..Len(merged_programmes) :
            LET p == merged_programmes[i].v
                d == get_date_object(p.stop)
            IN  (p \in Elems(OutProgrammes)) <=>
                    (d = None \/ SecondsFrom(d[1], now[1]) < 30 * SecondsPerDay)

\* A run has dropped a programme that stopped exactly 30 days before the
\* clock reading and kept one without a stop.
C8_Witness ==
    /\ pc = "done"
    /\ \E i, j \in 1..Len(merged_programmes) :
          LET p == merged_programmes[i].v
              q == merged_programmes[j].v
          IN  /\ get_date_object(p.stop) # None
              /\ SecondsFrom(get_date_object(p.stop)[1], now[1]) = 30 * SecondsPerDay
              /\ p \notin Elems(OutProgrammes)
              /\ q.stop = Some("")
              /\ q \in Elems(OutProgrammes)

\* C9: every programme of the written output names a channel of the same
\* output, and the ids accepted for programmes are the ids of the channels
\* to be written.
C9_ReferentialIntegrity ==
    /\ valid_channel_ids = DictKeys(final_channels)
    /\ pc = "done" =>
           \A e \in Elems(OutProgrammes) :
               \E c \in Elems(OutChannels) : c.id = e.channel

\* A run has written programmes of a channel only the persisted snapshot
\* lists and of a channel only the feed lists.
C9_Witness ==
    /\ pc = "done"
    /\ \E e, f \in Elems(OutProgrammes) :
          /\ e.channel \notin {c.id : c \in NewChannelElems}
          /\ f.channel \notin {c.id : c \in OldChannelElems}

\* C10: in the written output every channel comes before every programme,
\* the channel ids ascend, and the programmes' starts never descend, as
\* strings.
C10_OutputOrder ==
    pc = "done" =>
        /\ \A i, j \in 1..Len(disk.doc) :
               (disk.doc[i].tag = "programme" /\ disk.doc[j].tag = "channel")
                   => j < i
        /\ \A i, j \in 1..Len(OutChannels) :
               i < j => StrLess(OutChannels[i].id, OutChannels[j].id)
        /\ \A i, j \in 1..Len(OutProgrammes) :
               i < j => StrLeq(OutProgrammes[i].start[1], OutProgrammes[j].start[1])

\* A run has written two channels, and programmes that the merge held in
\* another order than their starts.
C10_Witness ==
    /\ pc = "done"
    /\ Len(OutChannels) = 2
    /\ \E i, j \in 1..Len(final_prog_list) :
          /\ i < j
          /\ StrLess(final_prog_list[j].start[1], final_prog_list[i].start[1])

====
